---- MODULE Spec2Model ----
(***************************************************************************)
(* cp::vulkan::StagingRing (src/src/vulkan/stagingRing.cpp,                *)
(* src/include/cp_framework/vulkan/stagingRing.hpp): the ring allocator,   *)
(* the pending queue, the janitor thread and the destructor, together with *)
(* the GPU fences and command buffers the tracked uploads own.             *)
(*                                                                         *)
(* Spec       the ring with its janitor thread, producers, the GPU and the *)
(*            destructor.                                                  *)
(* ManualSpec Reserve interleaved with AdvanceTailTo only.                 *)
(* CtorSpec   the three-argument constructor followed by Reserve and       *)
(*            AdvanceTailTo calls.                                         *)
(* SyncSpec   Buffer::UploadUsingRing with wait = true only.               *)
(* FailSpec   Buffer::UploadUsingRing tracked or failing after Reserve.    *)
(* BufSpec    cp::vulkan::Buffer (src/unnamed/part_016): Upload and Resize *)
(*            on a constructed Buffer.                                     *)
(* MapSpec    Buffer::Write, Map, Unmap and Resize on a constructed Buffer.*)
(* LiveSpec   the running ring under fair scheduling of the janitor and    *)
(*            completion of every submitted copy.                          *)
(* ShutdownSpec  Spec under fair scheduling of every thread.               *)
(*                                                                         *)
(* Init of Spec and ManualSpec is a ring whose members describe a created  *)
(* block of Capacity bytes: the state every operation of the class is      *)
(* written against.  What the constructor itself leaves in the members is  *)
(* modelled by StagingRing_ctor and checked under CtorSpec.                *)
(***************************************************************************)
EXTENDS Integers, Sequences, FiniteSets, TLC

VARIABLES
    totalSize,      \* VkDeviceSize totalSize
    head,           \* VkDeviceSize head
    tail,           \* VkDeviceSize tail
    buffer,         \* VkBuffer buffer: "null", "created"
    mapped,         \* void *mapped: NULL, or the base address of the block
    pending,        \* std::queue<Pending> pending
    running,        \* std::atomic<bool> running
    queueMutex,     \* owner of queueMutex: "free", "janitor", "shutdown"
    commitMutex,    \* owner of commitMutex: "free", "janitor"
    jpc,            \* position of the janitor thread in janitorLoop
    item,           \* janitorLoop's local Pending item
    spc,            \* lifetime of the object: constructor, alive, destructor steps
    ditem,          \* stopJanitor's local Pending p
    fence,          \* per upload: state of its VkFence
    fenceDestroys,  \* per upload: number of vkDestroyFence calls on its fence
    cmdFrees,       \* per upload: number of vkFreeCommandBuffers calls on its cmd
    res,            \* history: the ranges Reserve returned, in call order
    resState,       \* history: per reservation, what became of it
    submitLog,      \* history: the uploads in the order SubmitAndTrack accepted them
    lastTailBy,     \* history: who stored tail last, and for which reservation
    args,           \* the arguments the constructor was called with
    ret,            \* outcome of the caller's last call
    buf,            \* the members of the destination Buffer, and its bytes
    staging         \* per Buffer::Upload call: its local Buffer staging

vars == <<totalSize, head, tail, buffer, mapped, pending, running, queueMutex, commitMutex,
          jpc, item, spc, ditem, fence, fenceDestroys, cmdFrees, res, resState,
          submitLog, lastTailBy, args, ret, buf, staging>>

\* the Buffer side of the state
bvars == <<buf, staging>>

----------------------------------------------------------------------------
(* Bounds of the model *)

\* capacity of the ring under test
Capacity == 8

\* number of reservations made in one run
MaxRes == 3

\* width of VkDeviceSize in the model (64 in the program)
WordBits == 12

\* size of the destination Buffer
BufSize == 4

\* number of Buffer::Upload calls that get as far as a submission in one run
MaxUploads == 2

\* Reserve's default alignment
DefaultAlign == 16

\* capacity and request sizes of the scenario of the specification
Scenario == [capacity |-> 1024, small |-> 100, large |-> 900]

Word == 2 ^ WordBits

\* request sizes; UploadUsingRing, the caller of Reserve, rejects size 0
Sizes == {3, 4, Capacity + 1}

\* alignments: powers of two
Aligns == {1, 4, DefaultAlign}

Ids == 1 .. MaxRes

NULL == 0

----------------------------------------------------------------------------
(* VkDeviceSize arithmetic *)

Add(a, b) == (a + b) % Word

Sub(a, b) == (a - b + Word) % Word

BitNot(a) == Word - 1 - a

RECURSIVE BitAnd(_, _)
BitAnd(a, b) ==
    IF a = 0 \/ b = 0 THEN 0
    ELSE (a % 2) * (b % 2) + 2 * BitAnd(a \div 2, b \div 2)

\* Align rounding down: the addition of align - 1 left out
Align_down(v, align) == BitAnd(v, BitNot(Sub(align, 1)))

\* return (v + (align - 1)) & ~(align - 1);
Align(v, align) == BitAnd(Add(v, Sub(align, 1)), BitNot(Sub(align, 1)))

----------------------------------------------------------------------------
(* UploadHandle and Pending *)

\* the handle Buffer::UploadUsingRing builds for upload i
Handle(i) == [fence |-> i, cmd |-> i, device |-> 1, pool |-> 1]

NullHandle == [fence |-> NULL, cmd |-> NULL, device |-> NULL, pool |-> NULL]

\* bool valid() const noexcept { return fence != VK_NULL_HANDLE || cmd != VK_NULL_HANDLE; }
valid(h) == h.fence # NULL \/ h.cmd # NULL

NoItem == [handle |-> NullHandle, offsetEnd |-> 0]

NoRet == [op |-> "none"]

NoArgs == [allocator |-> NULL, totalSize |-> 0]

----------------------------------------------------------------------------
(* cp::vulkan::Buffer: construction, destroy, createInternal *)

\* VkBufferUsageFlags values callers pass
Usages == {1, 2}

\* the bytes of a new allocation of n bytes
Zeros(n) == [i \in 1 .. n |-> 0]

\* the members after destroy(), which are also the in-class initializers;
\* hostVisible (can the allocation be mapped) and mem (its bytes) belong to the
\* allocation
NoBuffer ==
    [m_buffer |-> NULL, m_allocator |-> NULL, m_allocation |-> NULL, m_usage |-> 0,
     m_size |-> 0, m_persistentlyMapped |-> FALSE, m_mappedPtr |-> NULL,
     hostVisible |-> FALSE, mem |-> << >>]

\* Buffer::destroy ends with every member reset, m_allocator, m_usage and
\* m_persistentlyMapped included
destroy(b) == NoBuffer

\* Buffer::createInternal: [ok |-> it returned, b |-> the members it leaves];
\* vmaOk is the result of vmaCreateBuffer
createInternal(b, createSize, createUsage, hostVis, vmaOk) ==
    IF b.m_allocator = NULL
    THEN [ok |-> FALSE, b |-> b]
    ELSE IF ~vmaOk
         THEN [ok |-> FALSE, b |-> [b EXCEPT !.m_usage = createUsage, !.m_size = createSize]]
         ELSE [ok |-> TRUE,
               b |-> [b EXCEPT !.m_usage = createUsage,
                               !.m_size = createSize,
                               !.m_buffer = 1,
                               !.m_allocation = 1,
                               !.hostVisible = hostVis,
                               !.mem = Zeros(createSize),
                               !.m_mappedPtr =
                                   IF b.m_persistentlyMapped /\ hostVis THEN 1 ELSE @]]

\* Buffer::Buffer(allocator, size, usage, memUsage, persistentlyMapped)
Buffer_ctor(allocator, size, usage, hostVis, persistentlyMapped, vmaOk) ==
    LET b0 == [NoBuffer EXCEPT !.m_allocator = allocator, !.m_usage = usage,
                               !.m_size = size,
                               !.m_persistentlyMapped = persistentlyMapped]
        c == createInternal(b0, size, usage, hostVis, vmaOk)
    IN  IF ~c.ok THEN [ok |-> FALSE, b |-> c.b]
        ELSE IF persistentlyMapped /\ ~hostVis
             THEN [ok |-> FALSE, b |-> destroy(c.b)]
             ELSE [ok |-> TRUE, b |-> c.b]

\* the Buffers a caller can hold: every successful construction of BufSize bytes
Buffers ==
    { r.b : r \in { c \in { Buffer_ctor(1, BufSize, u, h, p, TRUE) :
                                 u \in Usages, h \in BOOLEAN, p \in BOOLEAN } : c.ok } }

----------------------------------------------------------------------------
(* The state of a ring of Capacity bytes with its janitor started *)

RingInit ==
    /\ totalSize = Capacity
    /\ head = 0
    /\ tail = 0
    /\ buffer = "created"
    /\ mapped = 1
    /\ pending = << >>
    /\ running = TRUE
    /\ queueMutex = "free"
    /\ commitMutex = "free"
    /\ jpc = "top"
    /\ item = NoItem
    /\ spc = "alive"
    /\ ditem = NoItem
    /\ fence = [i \in Ids |-> "none"]
    /\ fenceDestroys = [i \in Ids |-> 0]
    /\ cmdFrees = [i \in Ids |-> 0]
    /\ res = << >>
    /\ resState = << >>
    /\ submitLog = << >>
    /\ lastTailBy = [by |-> "init", id |-> NULL]
    /\ args = NoArgs
    /\ ret = NoRet
    /\ staging = [i \in Ids |-> "none"]

\* the ring, and a destination Buffer that is not persistently mapped
Init ==
    /\ RingInit
    /\ buf = Buffer_ctor(1, BufSize, 1, TRUE, FALSE, TRUE).b

----------------------------------------------------------------------------
(* StagingRing::Reserve *)

pvars == <<pending, running, queueMutex, commitMutex, jpc, item, ditem,
           fence, fenceDestroys, cmdFrees, submitLog, args, bvars>>

jvars == <<pvars, spc>>

\* the call returns Reservation{off, mapped + off} and head = off + size
ReserveReturn(size, align, off, branch) ==
    /\ head' = Add(off, size)
    /\ res' = Append(res, [off |-> off, size |-> size])
    /\ resState' = Append(resState, "reserved")
    /\ ret' = [op |-> "Reserve", size |-> size, align |-> align, status |-> "ok",
               offset |-> off, branch |-> branch, head0 |-> head, tail0 |-> tail,
               ptr |-> [base |-> mapped, off |-> off]]
    /\ UNCHANGED <<totalSize, tail, buffer, mapped, lastTailBy>>

\* Reserve waiting for space, as its header comment has it, where the code throws
ReserveThrow_wait(size, align, why) ==
    /\ why # "out of space"
    /\ ret' = [op |-> "Reserve", size |-> size, align |-> align, status |-> why,
               offset |-> 0, branch |-> "none", head0 |-> head, tail0 |-> tail]
    /\ UNCHANGED <<totalSize, head, tail, buffer, mapped, res, resState, lastTailBy>>

\* LOG_THROW: the call leaves by exception
ReserveThrow(size, align, why) ==
    /\ ret' = [op |-> "Reserve", size |-> size, align |-> align, status |-> why,
               offset |-> 0, branch |-> "none", head0 |-> head, tail0 |-> tail]
    /\ UNCHANGED <<totalSize, head, tail, buffer, mapped, res, resState, lastTailBy>>

\* the fit branch testing only where the range starts
FitsBeforeEnd_start(alignedHead, size) == alignedHead <= totalSize

\* if (alignedHead + size <= totalSize)
FitsBeforeEnd(alignedHead, size) == Add(alignedHead, size) <= totalSize

\* the wrap branch tested against the end of the buffer, not against tail
WrapFits_end(alignedHead, size) == Add(alignedHead, size) <= totalSize

\* the wrap branch goes on: if (alignedHead + size > tail) LOG_THROW(...)
WrapFits(alignedHead, size) == ~(Add(alignedHead, size) > tail)

Reserve(size, align) ==
    /\ spc = "alive"
    /\ commitMutex = "free"
    /\ Len(res) < MaxRes
    /\ IF size > totalSize
       THEN ReserveThrow(size, align, "size > totalSize")
       ELSE IF FitsBeforeEnd(Align(head, align), size)
            THEN ReserveReturn(size, align, Align(head, align), "fit")
            ELSE IF WrapFits(Align(0, align), size)
                 THEN ReserveReturn(size, align, Align(0, align), "wrap")
                 ELSE ReserveThrow(size, align, "out of space")
    /\ UNCHANGED jvars

ReserveCall == \E size \in Sizes, align \in Aligns : Reserve(size, align)

----------------------------------------------------------------------------
(* StagingRing::AdvanceTailTo *)

\* tail = newTail % totalSize; with totalSize = 0 the division is undefined:
\* it traps and ends the process, or, where the divide instruction gives 0, the
\* remainder comes out as newTail
AdvanceTailTo(newTail) ==
    /\ spc = "alive"
    /\ commitMutex = "free"
    /\ IF totalSize # 0
       THEN /\ tail' = newTail % totalSize
            /\ UNCHANGED spc
       ELSE \/ /\ spc' = "crashed"
               /\ UNCHANGED tail
            \/ /\ tail' = newTail
               /\ UNCHANGED spc
    /\ ret' = [op |-> "AdvanceTailTo", status |-> IF spc' = "crashed" THEN "crash" ELSE "ok",
               newTail |-> newTail, head0 |-> head, pending0 |-> pending]
    /\ UNCHANGED <<totalSize, head, buffer, mapped, res>>
    /\ UNCHANGED pvars

\* the caller reclaims by hand, oldest first: reservation i and the ones before it
\* were never tracked, and tail goes to the end of reservation i
ManualAdvance ==
    \E i \in 1 .. Len(res) :
        /\ resState[i] = "reserved"
        /\ \A j \in 1 .. i : resState[j] \in {"reserved", "manual"}
        /\ AdvanceTailTo(res[i].off + res[i].size)
        /\ resState' = [j \in 1 .. Len(res) |->
                            IF j <= i THEN "manual" ELSE resState[j]]
        /\ lastTailBy' = [by |-> "manual", id |-> i]

ManualNext == ReserveCall \/ ManualAdvance

ManualSpec == Init /\ [][ManualNext]_vars

----------------------------------------------------------------------------
(* StagingRing::SubmitAndTrack and the producer that calls it *)

rvars == <<totalSize, head, tail, buffer, mapped, res, bvars>>

\* a notification that wakes nobody
NotifiedJpc_lost == jpc

\* cv.notify_one(): a janitor blocked in cv.wait wakes and takes queueMutex again
NotifiedJpc == IF jpc = "sleeping" THEN "lock" ELSE jpc

\* the end offset stored without the reduction modulo totalSize
OffsetEnd_nomod(offset, size) == Add(offset, size)

\* VkDeviceSize offsetEnd = (offset + size) % totalSize;
OffsetEnd(offset, size) == Add(offset, size) % totalSize

SubmitAndTrack(handle, offset, size) ==
    /\ spc = "alive"
    /\ queueMutex = "free"
    /\ IF ~valid(handle)
       THEN UNCHANGED <<pending, jpc>>
       ELSE /\ pending' = Append(pending,
                              [handle |-> handle,
                               offsetEnd |-> OffsetEnd(offset, size)])
            /\ jpc' = NotifiedJpc
    /\ UNCHANGED <<running, queueMutex, commitMutex, item, spc, ditem, args>>
    /\ UNCHANGED <<rvars, lastTailBy>>

\* every upload returning the empty handle
UploadReturn_empty(wait, handle) == NullHandle

\* if (wait) { ... return UploadHandle{}; } else { ... return handle; }
UploadReturn(wait, handle) == IF wait THEN NullHandle ELSE handle

\* Buffer::UploadUsingRing with wait = false, after Reserve: the copy of
\* reservation i is submitted with a new fence and handed to the ring
TrackUpload ==
    \E i \in 1 .. Len(res) :
        /\ resState[i] = "reserved"
        /\ fence' = [fence EXCEPT ![i] = "unsignalled"]
        /\ SubmitAndTrack(Handle(i), res[i].off, res[i].size)
        /\ resState' = [resState EXCEPT ![i] = "tracked"]
        /\ submitLog' = Append(submitLog, i)
        /\ ret' = [op |-> "UploadUsingRing", status |-> "ok", wait |-> FALSE, id |-> i,
                   handle |-> UploadReturn(FALSE, Handle(i)),
                   pending0 |-> pending, jpc0 |-> jpc, head0 |-> head, tail0 |-> tail]
        /\ UNCHANGED <<fenceDestroys, cmdFrees>>

\* SubmitAndTrack called with an empty handle
SubmitInvalid ==
    \E size \in Sizes :
        /\ SubmitAndTrack(NullHandle, 0, size)
        /\ ret' = [op |-> "SubmitAndTrack", handle |-> NullHandle,
                   pending0 |-> pending, jpc0 |-> jpc, head0 |-> head, tail0 |-> tail]
        /\ UNCHANGED <<fence, fenceDestroys, cmdFrees, resState, submitLog>>

\* the GPU finishes a submitted copy: its fence becomes signalled
FenceSignal ==
    \E i \in Ids :
        /\ fence[i] = "unsignalled"
        /\ fence' = [fence EXCEPT ![i] = "signalled"]
        /\ UNCHANGED <<pending, running, queueMutex, commitMutex, jpc, item, spc,
                       ditem, fenceDestroys, cmdFrees, submitLog, lastTailBy, args, resState>>
        /\ ret' = NoRet
        /\ UNCHANGED rvars

----------------------------------------------------------------------------
(* StagingRing::janitorLoop *)

\* what a janitor step leaves alone besides the variables it names
junch == <<totalSize, head, buffer, mapped, spc, ditem, res, args, running, submitLog, bvars>>

\* while (running.load())
J_top ==
    /\ jpc = "top"
    /\ jpc' = IF running THEN "lock" ELSE "exited"
    /\ UNCHANGED <<pending, queueMutex, commitMutex, item, tail, fence,
                   fenceDestroys, cmdFrees, resState, lastTailBy>>
    /\ ret' = NoRet
    /\ UNCHANGED junch

\* std::unique_lock<std::mutex> lk(queueMutex), also on return from a wait
J_lock ==
    /\ jpc = "lock"
    /\ queueMutex = "free"
    /\ queueMutex' = "janitor"
    /\ jpc' = "pred"
    /\ UNCHANGED <<pending, commitMutex, item, tail, fence,
                   fenceDestroys, cmdFrees, resState, lastTailBy>>
    /\ ret' = NoRet
    /\ UNCHANGED junch

\* the newest entry taken in place of the oldest
Front_newest(q) == q[Len(q)]

\* pending.front()
Front(q) == Head(q)

\* the front entry read and left in the queue
PopFront_kept(q) == q

\* pending.pop()
PopFront(q) == Tail(q)

\* the lock still held when the janitor leaves the block
ScopeUnlock_kept(owner) == owner

\* the closing brace of the block: lk is destroyed and queueMutex released
ScopeUnlock(owner) == "free"

\* the predicate of cv.wait and, when it holds, the rest of the locked block
J_pred ==
    /\ jpc = "pred"
    /\ IF pending # << >> \/ ~running
       THEN /\ queueMutex' = ScopeUnlock(queueMutex)
            /\ IF ~running /\ pending = << >>
               THEN /\ jpc' = "exited"
                    /\ UNCHANGED <<pending, item>>
               ELSE /\ item' = Front(pending)
                    /\ pending' = PopFront(pending)
                    /\ jpc' = IF valid(Front(pending).handle) THEN "wait" ELSE "top"
       ELSE /\ jpc' = "block"
            /\ UNCHANGED <<pending, item, queueMutex>>
    /\ UNCHANGED <<commitMutex, tail, fence, fenceDestroys, cmdFrees, resState, lastTailBy>>
    /\ ret' = NoRet
    /\ UNCHANGED junch

\* cv.wait releases queueMutex and blocks until notified
J_block ==
    /\ jpc = "block"
    /\ queueMutex' = "free"
    /\ jpc' = "sleeping"
    /\ UNCHANGED <<pending, commitMutex, item, tail, fence,
                   fenceDestroys, cmdFrees, resState, lastTailBy>>
    /\ ret' = NoRet
    /\ UNCHANGED junch

\* the fence wait left out
FenceWaitOver_nowait(h) == TRUE

\* vkWaitForFences(device, 1, &fence, VK_TRUE, UINT64_MAX) returns
FenceWaitOver(h) == (h.device # NULL /\ h.fence # NULL) => fence[h.fence] = "signalled"

J_waitFence ==
    /\ jpc = "wait"
    /\ FenceWaitOver(item.handle)
    /\ jpc' = "release"
    /\ UNCHANGED <<pending, queueMutex, commitMutex, item, tail, fence,
                   fenceDestroys, cmdFrees, resState, lastTailBy>>
    /\ ret' = NoRet
    /\ UNCHANGED junch

\* vkDestroyFence and vkFreeCommandBuffers on the handle's objects
ReleaseHandle(h) ==
    /\ fenceDestroys' =
          IF h.device # NULL /\ h.fence # NULL
          THEN [fenceDestroys EXCEPT ![h.fence] = @ + 1]
          ELSE fenceDestroys
    /\ cmdFrees' =
          IF h.device # NULL /\ h.cmd # NULL /\ h.pool # NULL
          THEN [cmdFrees EXCEPT ![h.cmd] = @ + 1]
          ELSE cmdFrees

J_release ==
    /\ jpc = "release"
    /\ ReleaseHandle(item.handle)
    /\ jpc' = "commit"
    /\ UNCHANGED <<pending, queueMutex, commitMutex, item, tail, fence,
                   resState, lastTailBy>>
    /\ ret' = NoRet
    /\ UNCHANGED junch

\* std::lock_guard<std::mutex> lk(commitMutex)
J_lockCommit ==
    /\ jpc = "commit"
    /\ commitMutex = "free"
    /\ commitMutex' = "janitor"
    /\ jpc' = "setTail"
    /\ UNCHANGED <<pending, queueMutex, item, tail, fence,
                   fenceDestroys, cmdFrees, resState, lastTailBy>>
    /\ ret' = NoRet
    /\ UNCHANGED junch

\* tail kept at the largest end offset seen
JanitorTail_max(cur, offsetEnd) == IF offsetEnd > cur THEN offsetEnd ELSE cur

\* the value the janitor stores: tail = item.offsetEnd;
JanitorTail(cur, offsetEnd) == offsetEnd

\* tail = item.offsetEnd; and the end of the loop body
J_setTail ==
    /\ jpc = "setTail"
    /\ tail' = JanitorTail(tail, item.offsetEnd)
    /\ commitMutex' = "free"
    /\ lastTailBy' = [by |-> "janitor", id |-> item.handle.fence]
    /\ resState' = [resState EXCEPT ![item.handle.fence] = "reclaimed"]
    /\ item' = NoItem
    /\ jpc' = "top"
    /\ UNCHANGED <<pending, queueMutex, fence, fenceDestroys, cmdFrees>>
    /\ ret' = NoRet
    /\ UNCHANGED junch

----------------------------------------------------------------------------
(* Buffer::UploadUsingRing with wait = true *)

\* the synchronous path giving the reserved span back to the ring
SyncTail_advance(cur, offsetEnd) == offsetEnd

\* the synchronous path does not touch ring.tail ("we do NOT change ring.tail here")
SyncTail(cur, offsetEnd) == cur

\* vkQueueSubmit of the copy of reservation i; the caller then blocks in
\* vkWaitForFences
SyncSubmit ==
    \E i \in 1 .. Len(res) :
        /\ spc = "alive"
        /\ resState[i] = "reserved"
        /\ fence' = [fence EXCEPT ![i] = "unsignalled"]
        /\ resState' = [resState EXCEPT ![i] = "syncwait"]
        /\ ret' = NoRet
        /\ UNCHANGED <<pending, running, queueMutex, commitMutex, jpc, item, spc,
                       ditem, fenceDestroys, cmdFrees, submitLog, lastTailBy, args>>
        /\ UNCHANGED rvars

\* the wait is over: vkDestroyFence, vkFreeCommandBuffers, return UploadHandle{}
SyncFinish ==
    \E i \in 1 .. Len(res) :
        /\ spc = "alive"
        /\ resState[i] = "syncwait"
        /\ FenceWaitOver(Handle(i))
        /\ ReleaseHandle(Handle(i))
        /\ tail' = SyncTail(tail, OffsetEnd(res[i].off, res[i].size))
        /\ resState' = [resState EXCEPT ![i] = "synced"]
        /\ ret' = [op |-> "UploadUsingRing", status |-> "ok", wait |-> TRUE, id |-> i,
                   handle |-> UploadReturn(TRUE, Handle(i)),
                   pending0 |-> pending, jpc0 |-> jpc, head0 |-> head, tail0 |-> tail]
        /\ UNCHANGED <<pending, running, queueMutex, commitMutex, jpc, item, spc,
                       ditem, fence, submitLog, lastTailBy, args>>
        /\ UNCHANGED <<totalSize, head, buffer, mapped, res, bvars>>

\* the Vulkan calls of UploadUsingRing that can fail after ring.Reserve:
\* vkAllocateCommandBuffers, vkCreateFence, vkQueueSubmit
FailStages == {"alloc", "fence", "submit"}

\* the command buffer exists once vkAllocateCommandBuffers has succeeded
CmdCreated(stage) == stage \in {"fence", "submit"}

\* the fence exists once vkCreateFence has succeeded
FenceCreated(stage) == stage = "submit"

\* Buffer::UploadUsingRing failing after Reserve returned reservation i: the
\* error path frees what was created and LOG_THROW leaves the call
UploadFail ==
    \E i \in 1 .. Len(res), stage \in FailStages :
        /\ spc = "alive"
        /\ resState[i] = "reserved"
        /\ cmdFrees' = IF CmdCreated(stage)
                       THEN [cmdFrees EXCEPT ![i] = @ + 1] ELSE cmdFrees
        /\ fenceDestroys' = IF FenceCreated(stage)
                            THEN [fenceDestroys EXCEPT ![i] = @ + 1] ELSE fenceDestroys
        /\ resState' = [resState EXCEPT ![i] = "failed"]
        /\ ret' = [op |-> "UploadUsingRing", status |-> "runtime_error",
                   stage |-> stage, id |-> i,
                   pending0 |-> pending, jpc0 |-> jpc, head0 |-> head, tail0 |-> tail]
        /\ UNCHANGED <<pending, running, queueMutex, commitMutex, jpc, item, spc,
                       ditem, fence, submitLog, lastTailBy, args>>
        /\ UNCHANGED rvars

----------------------------------------------------------------------------
(* StagingRing::~StagingRing: stopJanitor, then destroy *)

\* what a destructor step leaves alone besides the variables it names
dunch == <<commitMutex, item, fence, res, resState, submitLog, lastTailBy, args, bvars>>

\* running.store(false);
D_storeRunning ==
    /\ spc = "alive"
    /\ running' = FALSE
    /\ spc' = "notify"
    /\ UNCHANGED <<pending, queueMutex, jpc, ditem, fenceDestroys, cmdFrees>>
    /\ UNCHANGED <<totalSize, head, tail, buffer, mapped>>
    /\ ret' = NoRet
    /\ UNCHANGED dunch

\* cv.notify_one();
D_notify ==
    /\ spc = "notify"
    /\ jpc' = NotifiedJpc
    /\ spc' = "join"
    /\ UNCHANGED <<pending, running, queueMutex, ditem, fenceDestroys, cmdFrees>>
    /\ UNCHANGED <<totalSize, head, tail, buffer, mapped>>
    /\ ret' = NoRet
    /\ UNCHANGED dunch

\* the janitor thread not joined
JanitorJoined_nojoin == TRUE

\* janitor.join() returns
JanitorJoined == jpc = "exited"

\* janitor.join(); then std::lock_guard<std::mutex> lk(queueMutex);
D_join ==
    /\ spc = "join"
    /\ JanitorJoined
    /\ queueMutex = "free"
    /\ queueMutex' = "shutdown"
    /\ spc' = "drain"
    /\ UNCHANGED <<pending, running, jpc, ditem, fenceDestroys, cmdFrees>>
    /\ UNCHANGED <<totalSize, head, tail, buffer, mapped>>
    /\ ret' = NoRet
    /\ UNCHANGED dunch

\* while (!pending.empty()) { auto p = pending.front(); pending.pop(); ...
D_drain ==
    /\ spc = "drain"
    /\ IF pending = << >>
       THEN /\ queueMutex' = "free"
            /\ spc' = "destroy"
            /\ UNCHANGED <<pending, ditem>>
       ELSE /\ ditem' = Front(pending)
            /\ pending' = PopFront(pending)
            /\ spc' = IF valid(Front(pending).handle) THEN "drainWait" ELSE "drain"
            /\ UNCHANGED queueMutex
    /\ UNCHANGED <<running, jpc, fenceDestroys, cmdFrees>>
    /\ UNCHANGED <<totalSize, head, tail, buffer, mapped>>
    /\ ret' = NoRet
    /\ UNCHANGED dunch

\* vkWaitForFences on p's fence returns
D_drainWait ==
    /\ spc = "drainWait"
    /\ FenceWaitOver(ditem.handle)
    /\ spc' = "drainRelease"
    /\ UNCHANGED <<pending, running, queueMutex, jpc, ditem, fenceDestroys, cmdFrees>>
    /\ UNCHANGED <<totalSize, head, tail, buffer, mapped>>
    /\ ret' = NoRet
    /\ UNCHANGED dunch

\* vkDestroyFence and vkFreeCommandBuffers on p's objects
D_drainRelease ==
    /\ spc = "drainRelease"
    /\ ReleaseHandle(ditem.handle)
    /\ ditem' = NoItem
    /\ spc' = "drain"
    /\ UNCHANGED <<pending, running, queueMutex, jpc>>
    /\ UNCHANGED <<totalSize, head, tail, buffer, mapped>>
    /\ ret' = NoRet
    /\ UNCHANGED dunch

\* StagingRing::destroy
D_destroy ==
    /\ spc = "destroy"
    /\ buffer' = "null"
    /\ mapped' = NULL
    /\ totalSize' = 0
    /\ head' = 0
    /\ tail' = 0
    /\ spc' = "done"
    /\ UNCHANGED <<pending, running, queueMutex, jpc, ditem, fenceDestroys, cmdFrees>>
    /\ ret' = NoRet
    /\ UNCHANGED dunch

----------------------------------------------------------------------------
(* The ring with its janitor, its producers, the GPU and its destructor *)

Next ==
    \/ ReserveCall
    \/ ManualAdvance
    \/ TrackUpload
    \/ SubmitInvalid
    \/ FenceSignal
    \/ J_top
    \/ J_lock
    \/ J_pred
    \/ J_block
    \/ J_waitFence
    \/ J_release
    \/ J_lockCommit
    \/ J_setTail
    \/ D_storeRunning
    \/ D_notify
    \/ D_join
    \/ D_drain
    \/ D_drainWait
    \/ D_drainRelease
    \/ D_destroy

Spec == Init /\ [][Next]_vars

\* the steps of the janitor thread
Janitor ==
    \/ J_top
    \/ J_lock
    \/ J_pred
    \/ J_block
    \/ J_waitFence
    \/ J_release
    \/ J_lockCommit
    \/ J_setTail

\* the steps of ~StagingRing once it has stored running = false
Destructor ==
    \/ D_notify
    \/ D_join
    \/ D_drain
    \/ D_drainWait
    \/ D_drainRelease
    \/ D_destroy

\* the GPU finishes the copy that signals fence i
GpuSignals(i) == FenceSignal /\ fence[i] = "unsignalled" /\ fence'[i] = "signalled"

\* the running ring: producers that reserve and track, the GPU, the janitor
\* a producer's Reserve, unaligned or with the default alignment of UploadUsingRing
LiveReserve == \E size \in Sizes, align \in {1, DefaultAlign} : Reserve(size, align)

LiveNext ==
    \/ LiveReserve
    \/ TrackUpload
    \/ FenceSignal
    \/ Janitor

\* the janitor thread is scheduled whenever it can take a step, and every
\* submitted copy completes
LiveSpec ==
    /\ Init
    /\ [][LiveNext]_vars
    /\ WF_vars(Janitor)
    /\ \A i \in Ids : WF_vars(GpuSignals(i))

\* the whole ring, every thread scheduled whenever it can take a step and every
\* submitted copy completing
ShutdownSpec ==
    /\ Init
    /\ [][Next]_vars
    /\ WF_vars(Janitor)
    /\ WF_vars(Destructor)
    /\ \A i \in Ids : WF_vars(GpuSignals(i))

----------------------------------------------------------------------------
(* cp::vulkan::Buffer: Write, Upload, UploadUsingRing's argument checks, Resize *)

\* what a Buffer operation leaves alone in the ring
ringvars == <<totalSize, head, tail, buffer, mapped, pending, running, queueMutex,
              commitMutex, jpc, item, spc, ditem, res, resState, submitLog,
              lastTailBy, args>>

\* source pointers: null, or the address of the caller's data
Srcs == {NULL, 1}

\* sizes and offsets callers pass, the largest VkDeviceSize among the offsets
WriteSizes == {0, 2, BufSize + 1}

WriteOffsets == {0, 1, BufSize, Word - 1}

\* the call leaves by exception, or ends the process (what = "crash")
BufferThrows(op, what, a) ==
    /\ ret' = [op |-> op, status |-> what, a |-> a, buf0 |-> buf,
               head0 |-> head, tail0 |-> tail, pending0 |-> pending]
    /\ UNCHANGED <<buf, staging, fence, fenceDestroys, cmdFrees>>
    /\ UNCHANGED ringvars

\* byte j of the caller's data
SrcByte(j) == j + 1

\* the copy made to the start of the allocation, offset left out
Memcpy_noOffset(b, sz, offset) ==
    [i \in 1 .. Len(b) |-> IF i <= sz THEN SrcByte(i - 1) ELSE b[i]]

\* std::memcpy(ptr + offset, src, sz) on the bytes b of the allocation: the bytes
\* of b that the sz addresses starting at offset, taken modulo the address
\* width, fall on
Memcpy(b, sz, offset) ==
    [i \in 1 .. Len(b) |->
        IF \E j \in 0 .. sz - 1 : (offset + j) % Word = i - 1
        THEN SrcByte(CHOOSE j \in 0 .. sz - 1 : (offset + j) % Word = i - 1)
        ELSE b[i]]

\* Buffer::Write
Write(src, sz, offset) ==
    LET a == [src |-> src, size |-> sz, offset |-> offset] IN
    IF src = NULL THEN BufferThrows("Write", "invalid_argument", a)
    ELSE IF Add(offset, sz) > buf.m_size THEN BufferThrows("Write", "out_of_range", a)
    ELSE IF buf.m_allocation = NULL THEN BufferThrows("Write", "runtime_error", a)
    ELSE IF buf.m_mappedPtr = NULL /\ ~buf.hostVisible
         THEN BufferThrows("Write", "runtime_error", a)
    ELSE \* memcpy past the allocation is undefined: the process may die in it
         \/ /\ offset + sz > buf.m_size
            /\ BufferThrows("Write", "crash", a)
         \/ /\ buf' = [buf EXCEPT !.mem = Memcpy(buf.mem, sz, offset)]
            /\ ret' = [op |-> "Write", status |-> "ok", a |-> a, buf0 |-> buf,
                       head0 |-> head, tail0 |-> tail, pending0 |-> pending]
            /\ UNCHANGED <<staging, fence, fenceDestroys, cmdFrees>>
            /\ UNCHANGED ringvars

WriteCall ==
    \E src \in Srcs, sz \in WriteSizes, offset \in WriteOffsets : Write(src, sz, offset)

\* Buffer::Map
Map ==
    IF buf.m_mappedPtr # NULL
    THEN /\ ret' = [op |-> "Map", status |-> "ok", buf0 |-> buf]
         /\ UNCHANGED <<buf, staging, fence, fenceDestroys, cmdFrees>>
         /\ UNCHANGED ringvars
    ELSE IF buf.m_allocation = NULL \/ ~buf.hostVisible
    THEN /\ ret' = [op |-> "Map", status |-> "runtime_error", buf0 |-> buf]
         /\ UNCHANGED <<buf, staging, fence, fenceDestroys, cmdFrees>>
         /\ UNCHANGED ringvars
    ELSE /\ buf' = [buf EXCEPT !.m_mappedPtr = 1]
         /\ ret' = [op |-> "Map", status |-> "ok", buf0 |-> buf]
         /\ UNCHANGED <<staging, fence, fenceDestroys, cmdFrees>>
         /\ UNCHANGED ringvars

\* Buffer::Unmap: if (!m_mappedPtr) return; vmaUnmapMemory(...); m_mappedPtr = nullptr;
Unmap ==
    /\ buf' = [buf EXCEPT !.m_mappedPtr = NULL]
    /\ ret' = [op |-> "Unmap", status |-> "ok", buf0 |-> buf]
    /\ UNCHANGED <<staging, fence, fenceDestroys, cmdFrees>>
    /\ UNCHANGED ringvars

\* if (!srcData) throw ...; if (uploadSize == 0 || uploadSize > m_size) throw ...
UploadArgs(src, uploadSize) ==
    IF src = NULL \/ uploadSize = 0 \/ uploadSize > buf.m_size
    THEN "invalid_argument"
    ELSE "ok"

\* Upload handing back the live handle whatever the flag
UploadResult_live(wait, handle) == handle

\* if (wait) { ... return UploadHandle{}; } else { return handle; }
UploadResult(wait, handle) == IF wait THEN NullHandle ELSE handle

\* Buffer::Upload up to vkQueueSubmit and, with wait = false, to its return,
\* where the local Buffer staging goes out of scope and ~Buffer destroys it;
\* with wait = true the caller then blocks in vkWaitForFences
Upload(k, src, uploadSize, wait) ==
    LET a == [src |-> src, size |-> uploadSize, wait |-> wait] IN
    IF UploadArgs(src, uploadSize) # "ok"
    THEN BufferThrows("Upload", UploadArgs(src, uploadSize), a)
    ELSE IF buf.m_buffer = NULL THEN BufferThrows("Upload", "runtime_error", a)
    ELSE /\ fence' = [fence EXCEPT ![k] = "unsignalled"]
         /\ staging' = [staging EXCEPT ![k] = IF wait THEN "alive" ELSE "destroyed"]
         /\ ret' = IF wait THEN NoRet
                   ELSE [op |-> "Upload", status |-> "ok", a |-> a, id |-> k,
                         handle |-> UploadResult(FALSE, Handle(k)), buf0 |-> buf,
                         head0 |-> head, tail0 |-> tail, pending0 |-> pending]
         /\ UNCHANGED <<buf, fenceDestroys, cmdFrees>>
         /\ UNCHANGED ringvars

UploadCall ==
    \E k \in 1 .. MaxUploads, src \in Srcs, uploadSize \in WriteSizes, wait \in BOOLEAN :
        /\ staging[k] = "none"
        /\ \A j \in 1 .. k - 1 : staging[j] # "none"
        /\ Upload(k, src, uploadSize, wait)

\* Buffer::Upload with wait = true from the return of vkWaitForFences on
UploadFinish ==
    \E k \in Ids :
        /\ staging[k] = "alive"
        /\ FenceWaitOver(Handle(k))
        /\ ReleaseHandle(Handle(k))
        /\ staging' = [staging EXCEPT ![k] = "destroyed"]
        /\ ret' = [op |-> "Upload", status |-> "ok",
                   a |-> [src |-> 1, size |-> 0, wait |-> TRUE], id |-> k,
                   handle |-> UploadResult(TRUE, Handle(k)), buf0 |-> buf,
                   head0 |-> head, tail0 |-> tail, pending0 |-> pending]
        /\ UNCHANGED <<buf, fence>>
        /\ UNCHANGED ringvars

\* Buffer::UploadUsingRing up to the return of ring.Reserve
UploadUsingRing(src, uploadSize, align) ==
    LET a == [src |-> src, size |-> uploadSize] IN
    IF UploadArgs(src, uploadSize) # "ok"
    THEN BufferThrows("UploadUsingRing", UploadArgs(src, uploadSize), a)
    ELSE IF buffer = "null" THEN BufferThrows("UploadUsingRing", "runtime_error", a)
    ELSE Reserve(uploadSize, align)

UploadUsingRingCall ==
    \E src \in Srcs, uploadSize \in Sizes \cup {0, 2}, align \in Aligns :
        UploadUsingRing(src, uploadSize, align)

\* Buffer::Resize: [ok |-> it returned, b |-> the members it leaves]; hostVis
\* tells whether memUsage gives mappable memory, vmaOk the result of
\* vmaCreateBuffer
ResizeResult(b, newSize, hostVis, vmaOk) ==
    IF newSize = b.m_size THEN [ok |-> TRUE, b |-> b]
    ELSE LET d == destroy(b)
             c == createInternal(d, newSize, d.m_usage, hostVis, vmaOk)
         IN  IF ~c.ok THEN c
             ELSE IF c.b.m_persistentlyMapped
                  THEN IF hostVis
                       THEN [ok |-> TRUE, b |-> [c.b EXCEPT !.m_mappedPtr = 1]]
                       ELSE [ok |-> FALSE, b |-> c.b]
                  ELSE c

Resize(newSize, hostVis, vmaOk) ==
    LET r == ResizeResult(buf, newSize, hostVis, vmaOk) IN
    /\ buf' = r.b
    /\ ret' = [op |-> "Resize", status |-> IF r.ok THEN "ok" ELSE "runtime_error",
               a |-> [newSize |-> newSize, hostVis |-> hostVis, vmaOk |-> vmaOk],
               buf0 |-> buf,
               head0 |-> head, tail0 |-> tail, pending0 |-> pending]
    /\ UNCHANGED <<staging, fence, fenceDestroys, cmdFrees>>
    /\ UNCHANGED ringvars

ResizeCall ==
    \E newSize \in {2, BufSize, BufSize + 1}, hostVis \in BOOLEAN, vmaOk \in BOOLEAN :
        Resize(newSize, hostVis, vmaOk)

\* producers that only upload synchronously, the GPU and the idle janitor
SyncNext ==
    \/ UploadUsingRingCall
    \/ SyncSubmit
    \/ FenceSignal
    \/ SyncFinish
    \/ J_top
    \/ J_lock
    \/ J_pred
    \/ J_block

SyncSpec == Init /\ [][SyncNext]_vars

\* producers whose uploads are tracked or fail after reserving, and the GPU
FailNext ==
    \/ UploadUsingRingCall
    \/ UploadFail
    \/ TrackUpload
    \/ FenceSignal

FailSpec == Init /\ [][FailNext]_vars

\* a constructed Buffer next to the ring
BufInit ==
    /\ RingInit
    /\ buf \in Buffers

BufNext ==
    \/ UploadCall
    \/ UploadFinish
    \/ ResizeCall
    \/ FenceSignal

BufSpec == BufInit /\ [][BufNext]_vars

\* a Buffer its owner writes, maps, unmaps and resizes, no upload in flight
MapNext ==
    \/ WriteCall
    \/ Map
    \/ Unmap
    \/ ResizeCall

MapSpec == BufInit /\ [][MapNext]_vars

----------------------------------------------------------------------------
(* StagingRing::StagingRing(allocator, totalSize, usage) *)

\* the object before the constructor body runs: every member at its in-class
\* initializer, the arguments chosen by the caller
CtorInit ==
    /\ totalSize = 0
    /\ head = 0
    /\ tail = 0
    /\ buffer = "null"
    /\ mapped = NULL
    /\ pending = << >>
    /\ running = FALSE
    /\ queueMutex = "free"
    /\ commitMutex = "free"
    /\ jpc = "none"
    /\ item = NoItem
    /\ spc = "new"
    /\ ditem = NoItem
    /\ fence = [i \in Ids |-> "none"]
    /\ fenceDestroys = [i \in Ids |-> 0]
    /\ cmdFrees = [i \in Ids |-> 0]
    /\ res = << >>
    /\ resState = << >>
    /\ submitLog = << >>
    /\ lastTailBy = [by |-> "init", id |-> NULL]
    /\ args \in [allocator : {NULL, 1}, totalSize : {Capacity, Scenario.capacity}]
    /\ ret = NoRet
    /\ buf = Buffer_ctor(1, BufSize, 1, TRUE, FALSE, TRUE).b
    /\ staging = [i \in Ids |-> "none"]

\* The constructor's parameters allocator, totalSize and usage hide the members
\* of the same names and the body stores none of them: create() reads the
\* members, which keep their initializers.  vmaCreateBuffer is outside the
\* repository: both of its results are modelled, and so is the pMappedData it
\* reports, which create() copies to mapped without a test.
StagingRing_ctor ==
    /\ spc = "new"
    /\ \E created \in BOOLEAN, pMappedData \in {NULL, 1} :
          IF args.allocator = NULL \/ ~created
          THEN /\ spc' = "threw"
               /\ UNCHANGED <<buffer, mapped, running, jpc>>
          ELSE /\ buffer' = "created"
               /\ mapped' = pMappedData
               /\ running' = TRUE
               /\ jpc' = "top"
               /\ spc' = "alive"
    /\ head' = 0
    /\ tail' = 0
    /\ UNCHANGED <<totalSize, pending, queueMutex, commitMutex, item, ditem, fence,
                   fenceDestroys, cmdFrees, res, resState, submitLog, lastTailBy,
                   args, ret, bvars>>

\* the Reserve calls of the scenario, and the sizes of the other runs
ScenarioReserve ==
    \E size \in Sizes \cup {Scenario.small, Scenario.large}, align \in Aligns :
        Reserve(size, align)

\* AdvanceTailTo called on the ring the constructor made
AdvanceCall ==
    \E newTail \in {0, 3, Capacity, Capacity + 3, Word - 1} :
        /\ AdvanceTailTo(newTail)
        /\ UNCHANGED <<resState, lastTailBy>>

CtorNext ==
    \/ StagingRing_ctor
    \/ ScenarioReserve
    \/ AdvanceCall
    \/ J_top
    \/ J_lock
    \/ J_pred
    \/ J_block

CtorSpec == CtorInit /\ [][CtorNext]_vars

----------------------------------------------------------------------------
(* Ranges of the ring *)

\* reservation i is live: reserved, and tail was not yet advanced past its end
Live(i) == resState[i] \in {"reserved", "tracked"}

\* the byte ranges [a.off, a.off + a.size) and [b.off, b.off + b.size) intersect
Overlap(a, b) == a.off < b.off + b.size /\ b.off < a.off + a.size

----------------------------------------------------------------------------
(* Uploads *)

\* reservation i was handed to SubmitAndTrack
Tracked(i) == resState[i] \in {"tracked", "reclaimed"}

\* the copy reading reservation i is submitted and its fence has not signalled
InFlight(i) == Tracked(i) /\ fence[i] = "unsignalled"

\* the fence and the command buffer of upload i were released
Released(i) == fenceDestroys[i] >= 1 /\ cmdFrees[i] >= 1

\* end offset of reservation i as SubmitAndTrack is to store it
EndOf(i) == (res[i].off + res[i].size) % totalSize

\* the last call was a Reserve that returned a reservation
Returned == ret.op = "Reserve" /\ ret.status = "ok"

\* the last call was a Reserve that threw
Threw == ret.op = "Reserve" /\ ret.status # "ok"

\* the reservations made before the last call
PriorRes == IF Returned THEN 1 .. Len(res) - 1 ELSE 1 .. Len(res)

\* smallest multiple of a that is >= v
RoundUp(v, a) == ((v + a - 1) \div a) * a

IsPowerOfTwo(a) == \E k \in 0 .. WordBits - 1 : a = 2 ^ k

\* every reservation so far went to SubmitAndTrack or is still to go there
NoManualAdvance == \A j \in 1 .. Len(res) : resState[j] # "manual"

C3_FifoTail ==
    \A k \in 1 .. Len(submitLog) :
        ( /\ spc # "done"
          /\ lastTailBy.by = "janitor"
          /\ resState[submitLog[k]] = "reclaimed"
          /\ \A m \in k + 1 .. Len(submitLog) : resState[submitLog[m]] # "reclaimed" )
        => (tail = EndOf(submitLog[k]) /\ lastTailBy.id = submitLog[k])

C3_Witness ==
    /\ Len(submitLog) >= 2
    /\ resState[submitLog[1]] = "reclaimed"
    /\ resState[submitLog[2]] = "reclaimed"
    /\ lastTailBy = [by |-> "janitor", id |-> submitLog[2]]
    /\ tail = EndOf(submitLog[2])
    /\ EndOf(submitLog[1]) > EndOf(submitLog[2])

\* C4: for the entry the janitor handles, the fence is seen signalled first,
\* then the fence is destroyed and the command buffer freed, and only then is
\* tail set to its end offset: tail is never set for an entry whose fence is
\* unsignalled.
C4_JanitorOrder ==
    /\ jpc = "wait" =>
          /\ fenceDestroys[item.handle.fence] = 0
          /\ cmdFrees[item.handle.cmd] = 0
          /\ resState[item.handle.fence] = "tracked"
    /\ jpc = "release" =>
          /\ fence[item.handle.fence] = "signalled"
          /\ fenceDestroys[item.handle.fence] = 0
          /\ cmdFrees[item.handle.cmd] = 0
          /\ resState[item.handle.fence] = "tracked"
    /\ jpc \in {"commit", "setTail"} =>
          /\ fence[item.handle.fence] = "signalled"
          /\ Released(item.handle.fence)
          /\ resState[item.handle.fence] = "tracked"
    /\ \A i \in 1 .. Len(res) :
          resState[i] = "reclaimed" => (fence[i] = "signalled" /\ Released(i))

C4_Witness ==
    /\ lastTailBy.by = "janitor"
    /\ resState[lastTailBy.id] = "reclaimed"
    /\ tail = EndOf(lastTailBy.id)
    /\ \E i \in 1 .. Len(res) : InFlight(i)

\* C5: shutdown drains: when the destructor has returned the pending queue is
\* empty and every tracked handle had its fence waited on and its fence and
\* command buffer released; the buffer is destroyed only after the janitor was
\* joined and the remaining entries drained.
C5_ShutdownDrains ==
    (spc = "done" \/ buffer = "null") =>
        /\ jpc = "exited"
        /\ pending = << >>
        /\ item = NoItem /\ ditem = NoItem
        /\ \A i \in 1 .. Len(res) :
              Tracked(i) => (fence[i] = "signalled" /\ Released(i))

C5_Witness ==
    /\ spc = "done"
    /\ buffer = "null"
    /\ \E i, j \in 1 .. Len(res) :
          /\ resState[i] = "reclaimed"
          /\ resState[j] = "tracked"
          /\ Released(j)

\* C6: every handle SubmitAndTrack accepted is released exactly once inside the
\* ring, by the janitor or by the shutdown drain, never by both and never twice.
C6_ReleasedOnce ==
    \A i \in Ids :
        /\ fenceDestroys[i] <= 1
        /\ cmdFrees[i] <= 1
        /\ fenceDestroys[i] = cmdFrees[i]
        /\ (i > Len(res) \/ ~Tracked(i)) => fenceDestroys[i] = 0
        /\ (i <= Len(res) /\ Tracked(i) /\ spc = "done") => fenceDestroys[i] = 1

C6_Witness ==
    /\ spc = "done"
    /\ Len(submitLog) = MaxRes
    /\ \A i \in Ids : fenceDestroys[i] = 1 /\ cmdFrees[i] = 1
    /\ \E i, j \in Ids : resState[i] = "reclaimed" /\ resState[j] = "tracked"

C8_Case ==
    /\ ret.op = "Reserve"
    /\ lastTailBy.by = "init"
    /\ RoundUp(ret.head0, ret.align) + ret.size > totalSize
    /\ \E i \in PriorRes : Overlap(res[i], [off |-> 0, size |-> ret.size])

C8_ExhaustionFails ==
    C8_Case => (Threw /\ head = ret.head0 /\ tail = ret.tail0)

C8_Witness ==
    /\ C8_Case
    /\ ret.status = "out of space"
    /\ ret.size <= totalSize
    /\ head = ret.head0 /\ head > 0 /\ tail = 0

\* C9 (P2, alignment): a successful Reserve(size, align) with align a power of
\* two returns a multiple of align: the smallest one >= the head before the
\* call when the range fits before the end, 0 after a wrap.
C9_Aligned ==
    (Returned /\ IsPowerOfTwo(ret.align)) =>
        /\ ret.offset % ret.align = 0
        /\ ret.branch = "fit" => ret.offset = RoundUp(ret.head0, ret.align)
        /\ ret.branch = "wrap" => ret.offset = 0

C9_Witness ==
    /\ Returned
    /\ ret.branch = "fit"
    /\ ret.align > 1
    /\ ret.offset > ret.head0
    /\ ret.offset % ret.align = 0

\* the last call was Reserve(size, DefaultAlign) made with head at head0
ScenarioCall(size, head0) ==
    /\ spc = "alive"
    /\ args.totalSize = Scenario.capacity
    /\ ret.op = "Reserve"
    /\ ret.size = size
    /\ ret.align = DefaultAlign
    /\ ret.head0 = head0
    /\ ret.tail0 = 0

\* C10: on a ring constructed with capacity 1024, the first Reserve(100) returns
\* offset 0, the second returns offset 112, and a Reserve(900) made before
\* either upload completes fails.
C10_Scenario ==
    /\ ScenarioCall(Scenario.small, 0) => (Returned /\ ret.offset = 0)
    /\ ScenarioCall(Scenario.small, Scenario.small) =>
          (Returned /\ ret.offset = RoundUp(Scenario.small, DefaultAlign))
    /\ ScenarioCall(Scenario.large, RoundUp(Scenario.small, DefaultAlign) + Scenario.small) =>
          Threw

----------------------------------------------------------------------------
(* The constructed ring *)

\* the constructor has returned and no operation has changed the ring since
JustConstructed == spc = "alive" /\ res = << >> /\ args # NoArgs

\* C11: after StagingRing(allocator, C, usage) returns successfully the total
\* size is the requested capacity C, the block exists, head = tail = 0, the
\* pending queue is empty and the janitor thread is running.
C11_Constructed ==
    JustConstructed =>
        /\ totalSize = args.totalSize
        /\ buffer = "created"
        /\ head = 0 /\ tail = 0
        /\ pending = << >>
        /\ running /\ jpc \notin {"none", "exited"}

----------------------------------------------------------------------------
(* The janitor's fence wait and the two locks *)

\* a producer's call of each of the three operations can complete now
ProducerCanRun ==
    /\ \A size \in Sizes, align \in Aligns :
          Len(res) < MaxRes => ENABLED Reserve(size, align)
    /\ \A newTail \in 0 .. 2 * Capacity :
          ENABLED (AdvanceTailTo(newTail) /\ UNCHANGED <<resState, lastTailBy>>)
    /\ \A i \in Ids : ENABLED SubmitAndTrack(Handle(i), 0, 1)
    /\ ENABLED SubmitAndTrack(NullHandle, 0, 1)

\* C12: while the janitor waits on the fence of a pending entry it holds
\* neither commitMutex nor queueMutex, so Reserve, AdvanceTailTo and
\* SubmitAndTrack of a producer complete without waiting for that fence; no
\* thread ever holds commitMutex and queueMutex at the same time.
C12_WaitHoldsNoLock ==
    /\ jpc = "wait" =>
          /\ queueMutex = "free"
          /\ commitMutex = "free"
          /\ spc = "alive" => ProducerCanRun
    /\ ~(queueMutex = "janitor" /\ commitMutex = "janitor")
    /\ commitMutex # "shutdown"
    /\ queueMutex = "janitor" <=> jpc \in {"pred", "block"}
    /\ commitMutex = "janitor" <=> jpc = "setTail"

C12_Witness ==
    /\ jpc = "wait"
    /\ fence[item.handle.fence] = "unsignalled"
    /\ Returned
    /\ ret.offset = res[item.handle.fence].off + res[item.handle.fence].size

----------------------------------------------------------------------------
(* Tracked uploads *)

\* the last call was UploadUsingRing with wait = false, and it returned
TrackedReturn == ret.op = "UploadUsingRing" /\ ret.status = "ok" /\ ~ret.wait

\* C13: a successful UploadUsingRing with wait = false has put exactly one
\* entry on the pending queue, whose handle is the submitted fence and command
\* buffer and whose end offset is (reservedOffset + uploadSize) mod totalSize,
\* and returns that same valid handle.
C13_TrackedUpload ==
    TrackedReturn =>
        /\ Len(pending) = Len(ret.pending0) + 1
        /\ SubSeq(pending, 1, Len(ret.pending0)) = ret.pending0
        /\ pending[Len(pending)].handle = Handle(ret.id)
        /\ pending[Len(pending)].offsetEnd =
              (res[ret.id].off + res[ret.id].size) % totalSize
        /\ ret.handle = pending[Len(pending)].handle
        /\ valid(ret.handle)
        /\ fence[ret.handle.fence] = "unsignalled"
        /\ fenceDestroys[ret.handle.fence] = 0 /\ cmdFrees[ret.handle.cmd] = 0

C13_Witness ==
    /\ TrackedReturn
    /\ ret.pending0 # << >>
    /\ res[ret.id].off > 0
    /\ pending[Len(pending)].offsetEnd = 0

\* the last call was SubmitAndTrack, directly or from UploadUsingRing
SubmitReturn == ret.op = "SubmitAndTrack" \/ TrackedReturn

----------------------------------------------------------------------------
(* Synchronous uploads through the ring *)

\* the last call was UploadUsingRing with wait = true, and it returned
SyncReturn == ret.op = "UploadUsingRing" /\ ret.status = "ok" /\ ret.wait

\* C14: UploadUsingRing with wait = true returns an empty handle after
\* releasing the fence and the command buffer, and leaves tail and the pending
\* queue as they were while head stays past the reservation; the span is never
\* reclaimed, so with synchronous uploads only, once the room before the end of
\* the block is used up Reserve fails with out of space though nothing is in
\* flight.
C14_SyncLeaks ==
    /\ SyncReturn =>
          /\ ~valid(ret.handle)
          /\ fence[ret.id] = "signalled"
          /\ fenceDestroys[ret.id] = 1 /\ cmdFrees[ret.id] = 1
          /\ tail = ret.tail0 /\ pending = ret.pending0
          /\ head >= res[ret.id].off + res[ret.id].size
    /\ \A i \in 1 .. Len(res) : resState[i] = "synced" => tail <= res[i].off
    /\ pending = << >>
    /\ (ret.op = "Reserve" /\ ret.size <= totalSize
          /\ RoundUp(ret.head0, ret.align) + ret.size > totalSize)
       => (Threw /\ ret.status = "out of space")

C14_Witness ==
    /\ Threw /\ ret.status = "out of space"
    /\ Len(res) >= 2
    /\ \A i \in 1 .. Len(res) : resState[i] = "synced"
    /\ \A i \in Ids : fence[i] # "unsignalled"

----------------------------------------------------------------------------
(* Buffer::Upload *)

\* the last call was a Buffer::Upload that returned a handle
UploadReturned == ret.op = "Upload" /\ ret.status = "ok"

\* C15: Upload with wait = true blocks until the fence signals, destroys the
\* fence and frees the command buffer before it returns, and returns a handle
\* that is not valid; with wait = false it returns a valid handle whose fence
\* and command buffer Upload has not released.
C15_UploadOwnership ==
    /\ UploadReturned =>
          /\ ret.a.wait =>
                /\ ~valid(ret.handle)
                /\ fence[ret.id] = "signalled"
                /\ fenceDestroys[ret.id] = 1 /\ cmdFrees[ret.id] = 1
          /\ ~ret.a.wait =>
                /\ valid(ret.handle)
                /\ ret.handle = Handle(ret.id)
                /\ fence[ret.id] # "none"
                /\ fenceDestroys[ret.id] = 0 /\ cmdFrees[ret.id] = 0
    /\ \A k \in Ids :
          staging[k] = "alive" => (fenceDestroys[k] = 0 /\ cmdFrees[k] = 0)

C15_Witness ==
    /\ UploadReturned
    /\ ret.a.wait
    /\ fenceDestroys[ret.id] = 1
    /\ \E k \in Ids :
          k # ret.id /\ staging[k] = "destroyed" /\ fenceDestroys[k] = 0

\* C16: the temporary staging buffer Upload creates is never destroyed while
\* the submitted copy that reads from it is in flight, with wait = true and
\* with wait = false.
C16_StagingOutlivesCopy ==
    \A k \in Ids : staging[k] = "destroyed" => fence[k] # "unsignalled"

----------------------------------------------------------------------------
(* Argument checks of Write, Upload and UploadUsingRing *)

\* the last call was Write, Upload or UploadUsingRing with a null source, or
\* with a size or offset outside the capacity of the destination
BadArgsCall ==
    /\ ret.op \in {"Write", "Upload", "UploadUsingRing"}
    /\ "a" \in DOMAIN ret
    /\ \/ ret.a.src = NULL
       \/ ret.op = "Write" /\ ret.a.offset + ret.a.size > ret.buf0.m_size
       \/ ret.op # "Write" /\ ret.a.size > ret.buf0.m_size

\* C17: a call of Write, Upload or UploadUsingRing with a null source pointer
\* or a size or offset outside the capacity of the destination fails with an
\* invalid-argument or out-of-range error, and the buffer, the ring's head and
\* tail and the pending queue are as before the call.
C17_NoPartialMutation ==
    BadArgsCall =>
        /\ ret.status \in {"invalid_argument", "out_of_range"}
        /\ buf = ret.buf0
        /\ head = ret.head0 /\ tail = ret.tail0
        /\ pending = ret.pending0

----------------------------------------------------------------------------
(* Buffer::Resize *)

\* the last call was Resize to another size, with memory that can be created
\* and, for a persistently mapped buffer, mapped
ResizeCase ==
    /\ ret.op = "Resize"
    /\ ret.a.newSize # ret.buf0.m_size
    /\ ret.a.vmaOk
    /\ ret.buf0.m_persistentlyMapped => ret.a.hostVis

\* C18: Resize(newSize, memUsage) with newSize different from the current size
\* leaves GetSize() = newSize, GetUsage() as before the call, a non-null buffer
\* handle, and a persistently mapped buffer persistently mapped again.
C18_Resized ==
    ResizeCase =>
        /\ ret.status = "ok"
        /\ buf.m_size = ret.a.newSize
        /\ buf.m_usage = ret.buf0.m_usage
        /\ buf.m_buffer # NULL
        /\ ret.buf0.m_persistentlyMapped =>
              (buf.m_persistentlyMapped /\ buf.m_mappedPtr # NULL)

----------------------------------------------------------------------------
(* StagingRing::AdvanceTailTo *)

\* C20: AdvanceTailTo(newTail) on a constructed ring sets tail to
\* newTail mod totalSize, for every newTail, and leaves head and the pending
\* queue unchanged.
C20_AdvanceTail ==
    ret.op = "AdvanceTailTo" =>
        /\ ret.status = "ok"
        /\ totalSize # 0
        /\ tail = ret.newTail % totalSize
        /\ head = ret.head0
        /\ pending = ret.pending0

----------------------------------------------------------------------------
(* Failures of the construction of the ring *)

\* the constructor is over and either no block was created or the block has no
\* mapped address
NoMappedBlock == spc \notin {"new", "done"} /\ (buffer = "null" \/ mapped = NULL)

\* C23: the construction of a StagingRing throws whenever the memory block
\* cannot be created or cannot be mapped (null mapped pointer), and then no
\* janitor thread has been started.
C23_CtorFails ==
    NoMappedBlock => (spc = "threw" /\ jpc = "none" /\ ~running)

----------------------------------------------------------------------------
(* Buffer::Write, Map and Unmap *)

\* the last call was a Write that returned, with its range inside the buffer
WriteDone ==
    /\ ret.op = "Write"
    /\ ret.status = "ok"
    /\ ret.a.offset + ret.a.size <= ret.buf0.m_size

C22_MapUnmap ==
    /\ (ret.op = "Unmap" /\ ret.buf0.m_persistentlyMapped) =>
          (buf = ret.buf0 /\ buf.m_mappedPtr # NULL)
    /\ (ret.op = "Unmap" /\ ~ret.buf0.m_persistentlyMapped) =>
          buf = [ret.buf0 EXCEPT !.m_mappedPtr = NULL]
    /\ (ret.op = "Map" /\ ret.buf0.m_mappedPtr # NULL) => buf = ret.buf0

\* the last call was a Write that got as far as its memcpy
WriteCopied == ret.op = "Write" /\ ret.status \in {"ok", "crash"}

\* C30: Write never copies outside the buffer: for all offset and sz, those for
\* which offset + sz overflows the width of VkDeviceSize included, the call
\* fails with out_of_range or the range [offset, offset + sz) it writes lies
\* within [0, m_size).
C30_WriteInBounds ==
    WriteCopied => ret.a.offset + ret.a.size <= ret.buf0.m_size

----------------------------------------------------------------------------
(* The order in which the janitor drains *)

\* how many of the tracked uploads the janitor has finished with
NumReclaimed ==
    Cardinality({k \in 1 .. Len(submitLog) : resState[submitLog[k]] = "reclaimed"})

\* the janitor holds an entry it popped
JanitorHolds == jpc \in {"wait", "release", "commit", "setTail"}

\* C25: the janitor drains pending strictly in SubmitAndTrack order: entry k is
\* released and tail set to its end offset only after the fences of entry k and
\* of all entries submitted before it have signalled, also when a later
\* entry's fence signals first; the entry the janitor works on, whose end offset
\* it assigns to tail next, is always the oldest one not yet reclaimed.
C25_StrictFifo ==
    /\ \A k \in 1 .. Len(submitLog) :
          /\ (Released(submitLog[k]) \/ resState[submitLog[k]] = "reclaimed") =>
                \A m \in 1 .. k :
                    /\ fence[submitLog[m]] = "signalled"
                    /\ m < k => Released(submitLog[m])
          /\ resState[submitLog[k]] = "reclaimed" =>
                \A m \in 1 .. k : resState[submitLog[m]] = "reclaimed"
    /\ JanitorHolds =>
          /\ NumReclaimed < Len(submitLog)
          /\ item.handle = Handle(submitLog[NumReclaimed + 1])
          /\ item.offsetEnd = EndOf(submitLog[NumReclaimed + 1])

\* the janitor waits on the oldest upload, submitted out of reservation order,
\* while the fence of a later one has signalled already
C25_Witness ==
    /\ jpc = "wait"
    /\ Len(submitLog) >= 2
    /\ submitLog[1] > submitLog[2]
    /\ item.handle = Handle(submitLog[1])
    /\ fence[submitLog[1]] = "unsignalled"
    /\ fence[submitLog[2]] = "signalled"
    /\ resState[submitLog[2]] = "tracked"
    /\ ~Released(submitLog[2])

----------------------------------------------------------------------------
(* Reserve: exhaustion and bounds *)

\* the last call was a Reserve of at most the capacity made when nothing was
\* live: every earlier reservation reclaimed, no entry pending, tail == head
ReserveOnEmptyRing ==
    /\ ret.op = "Reserve"
    /\ ret.size <= totalSize
    /\ ret.tail0 = ret.head0
    /\ pending = << >>
    /\ \A i \in PriorRes : ~Live(i)

C28_InsideBlock ==
    /\ Returned =>
          /\ ret.offset + ret.size <= totalSize
          /\ ret.ptr = [base |-> mapped, off |-> ret.offset]
          /\ mapped # NULL
          /\ head = ret.offset + ret.size
    /\ 0 <= head /\ head <= totalSize

\* a reservation placed after an earlier one that ends where the block ends
C28_Witness ==
    /\ Returned
    /\ ret.branch = "fit"
    /\ ret.offset > 0
    /\ ret.offset + ret.size = totalSize
    /\ head = totalSize

----------------------------------------------------------------------------
(* Progress of the janitor and of the destructor *)

\* upload i is on the pending queue or in the janitor's hands
AwaitsJanitor(i) == i \in DOMAIN resState /\ resState[i] = "tracked"

\* the janitor has released upload i and has just set tail to its end offset
JanitorReclaimed(i) ==
    /\ i \in DOMAIN resState /\ resState[i] = "reclaimed"
    /\ Released(i)
    /\ lastTailBy = [by |-> "janitor", id |-> i]
    /\ tail = EndOf(i)

\* C24: automatic reclamation is live: while the ring is running, every upload
\* tracked with SubmitAndTrack, its fence and those of its predecessors
\* signalling eventually and the janitor thread being scheduled fairly, is
\* eventually released by the janitor and tail is eventually set to its end
\* offset.
C24_ReclamationLive ==
    \A i \in Ids : AwaitsJanitor(i) ~> JanitorReclaimed(i)

\* every upload the bound allows was tracked and reclaimed, and the janitor
\* sleeps again
C24_Witness ==
    /\ Len(submitLog) = MaxRes
    /\ \A i \in Ids : resState[i] = "reclaimed" /\ Released(i)
    /\ JanitorReclaimed(submitLog[MaxRes])
    /\ jpc = "sleeping"

\* C26: shutdown terminates: every tracked fence signalling eventually, the
\* destructor returns for every interleaving of stopJanitor with the janitor
\* thread; the stop signal (running = false, then notify_one, queueMutex not
\* held) is not lost by a janitor that has evaluated its wait predicate and is
\* about to sleep.
C26_ShutdownTerminates == (spc = "notify") ~> (spc = "done")

----------------------------------------------------------------------------
(* Buffer::UploadUsingRing failing after ring.Reserve *)

\* the last call was an UploadUsingRing that failed after reserving, and no
\* reservation was made since
UploadFailed ==
    /\ ret.op = "UploadUsingRing"
    /\ ret.status = "runtime_error"
    /\ "stage" \in DOMAIN ret
    /\ ret.id = Len(res)

\* head as the Reserve that made reservation i found it
HeadBefore(i) == IF i = 1 THEN 0 ELSE res[i - 1].off + res[i - 1].size

====
